---- MODULE Spec2Model ----
(***************************************************************************)
(* Model of the image acquisition code of image-scraper-generator:         *)
(*   image_scraper.py  search_images, search_images_backup,                *)
(*                     download_image, scrape_and_download                 *)
(*   ai_generator.py   generate_ai_image, generate_multiple_images         *)
(*   database.py       save_scraped_image, save_ai_generated_image         *)
(*                                                                         *)
(* Strings are sequences of one-character strings.  Time is counted in     *)
(* ticks of 100 ms on a monotonic clock; calls follow one another without  *)
(* idle time.  The remote providers, the network, the file system and the  *)
(* database server are the environment: their answers are inputs chosen    *)
(* with \E.  The k-th image URL of a primary answer is DdgUrl(k).          *)
(***************************************************************************)
EXTENDS Integers, Sequences, FiniteSets, TLC

VARIABLES
    DDGS_AVAILABLE,  \* image_scraper.py module flag, fixed at import
    db,              \* the handle main() obtained at startup, None when not connected
    folder,          \* TRUE iff the directory DOWNLOAD_FOLDER exists
    now,             \* wall clock, in ticks
    disk,            \* function: path of an existing file -> its size in bytes
    ledger,          \* db.images: sequence of inserted documents
    pc,              \* "idle" | "scrape" | "genmulti"
    call,            \* frame of the batch function in progress
    ret,             \* the call that returned last: arguments, attempts, returned list
    ncalls,          \* calls of the acquisition functions started so far
    used,            \* item attempts made so far
    writes,          \* every open(filepath, 'wb') of the run, in order
    shadow,          \* result list of the same batch run with db = None on the same answers
    reply,           \* the database.py function called last by a client, with what it returned
    tally,           \* successful inserts so far, by the save function that made them
    conn,            \* MONGODB_URI and the get_database_connection call of the startup
    ui               \* the interface: application, page, session state, text typed, call made

vars == <<DDGS_AVAILABLE, db, folder, now, disk, ledger, pc, call, ret, ncalls, used, writes, shadow,
          reply, tally, conn, ui>>

\* the variables that the acquisition functions themselves neither read nor write
appvars == <<conn, ui>>
clientvars == <<reply, tally, conn, ui>>

----------------------------------------------------------------------------
(* Bounds of the model *)

MaxCount == 2        \* largest count a caller passes
MaxProv == 2         \* longest result list the primary provider answers with
MaxCalls == 1        \* calls of the acquisition functions in one run
MaxAttempts == 2     \* item attempts (downloads and generations) in one run
MaxSaves == 2        \* direct calls of the save functions of database.py in one run

(* Program constants *)

MinBytes == 1000         \* download_image: os.path.getsize(filepath) > 1000
PromptCap == 50          \* generate_ai_image: [:50]
SleepTicks == 3          \* scrape_and_download: time.sleep(0.3)
TicksPerSecond == 10     \* strftime("%Y%m%d_%H%M%S") has one-second resolution
MsPerTick == 100         \* int(time.time() * 1000)

None == "None"
DB == "db"               \* a database handle
Handles == {None, DB}

----------------------------------------------------------------------------
(* Characters and strings *)

Letters == {"a","b","c","d","e","f","g","h","i","j","k","l","m",
            "n","o","p","q","r","s","t","u","v","w","x","y","z"}
DigitChars == <<"0","1","2","3","4","5","6","7","8","9">>
Digits == {DigitChars[i] : i \in 1..10}
WordChars == Letters \cup Digits \cup {"_"}      \* \w
SpaceChars == {" "}                              \* \s

Min(a, b) == IF a < b THEN a ELSE b
Last(q) == q[Len(q)]

\* sub occurs in q as a block of consecutive elements (sub in q)
Contains(q, sub) ==
    \E k \in 0..(Len(q) - Len(sub)) : SubSeq(q, k + 1, k + Len(sub)) = sub

RECURSIVE str(_)
str(n) == IF n < 10 THEN <<DigitChars[n + 1]>>
          ELSE str(n \div 10) \o <<DigitChars[(n % 10) + 1]>>

RECURSIVE Repeat(_, _)
Repeat(c, n) == IF n = 0 THEN <<>> ELSE <<c>> \o Repeat(c, n - 1)

\* re.sub(r'[^\w\s-]', '', s)
IsKept(c) == c \in WordChars \cup SpaceChars \cup {"-"}
re_sub(s) == SelectSeq(s, IsKept)

\* s.replace(' ', '_')
replace(s) == [i \in 1..Len(s) |-> IF s[i] = " " THEN "_" ELSE s[i]]

\* s[:n]
Slice(s, n) == SubSeq(s, 1, Min(n, Len(s)))

\* s.strip()
RECURSIVE lstrip(_)
lstrip(s) == IF s # <<>> /\ Head(s) \in SpaceChars THEN lstrip(Tail(s)) ELSE s
RECURSIVE rstrip(_)
rstrip(s) == IF s # <<>> /\ s[Len(s)] \in SpaceChars
             THEN rstrip(SubSeq(s, 1, Len(s) - 1)) ELSE s
strip(s) == rstrip(lstrip(s))

\* urllib.parse.quote_plus on the characters used here
QuoteChar(c) == IF c \in WordChars \cup {"-", ".", "~"} THEN <<c>>
                ELSE IF c = " " THEN <<"+">>
                ELSE IF c = "," THEN <<"%", "2", "C">>
                ELSE IF c = "!" THEN <<"%", "2", "1">>
                ELSE <<"%", "3", "F">>
RECURSIVE quote_plus(_)
quote_plus(s) == IF s = <<>> THEN <<>> ELSE QuoteChar(Head(s)) \o quote_plus(Tail(s))

\* the inputs a caller types
Queries == { <<"r","e","d"," ","c","a","r","!">> }
Prompts == { <<"c","a","t">>, Repeat("a", PromptCap) \o <<" ","b">> }
Counts == 0..MaxCount

----------------------------------------------------------------------------
(* Files *)

DOWNLOAD_FOLDER == "downloads"

\* os.path.join(DOWNLOAD_FOLDER, f"{prefix}{name}_{index}_{stamp}{ext}").  A scraped
\* file has no prefix; a generated file has the prefix "ai_" and no index.
Path(prefix, name, index, stamp, ext) ==
    [dir |-> DOWNLOAD_FOLDER, prefix |-> prefix, name |-> name,
     index |-> index, stamp |-> stamp, ext |-> ext]

\* the value None where a path is expected
NoPath == [dir |-> "", prefix |-> "", name |-> <<>>, index |-> 0, stamp |-> 0, ext |-> ""]

\* open(filepath, 'wb') followed by the writes that reached the file
WriteFile(d, filepath, size) == (filepath :> size) @@ d

Exists(d, filepath) == filepath \in DOMAIN d

----------------------------------------------------------------------------
(* image_scraper.py: the search providers *)

\* answers of the primary provider: it raises, or it returns a list of results of
\* which some carry an "image" URL (TRUE) and some do not (FALSE)
RECURSIVE BoolSeqs(_)
BoolSeqs(n) == IF n = 0 THEN {<<>>}
               ELSE LET S == BoolSeqs(n - 1)
                    IN  S \cup {Append(s, b) : s \in {t \in S : Len(t) = n - 1}, b \in BOOLEAN}
PrimaryAnswers == {[raises |-> TRUE, results |-> <<>>]}
                  \cup {[raises |-> FALSE, results |-> r] : r \in BoolSeqs(MaxProv)}

DdgUrl(j) == [provider |-> "duckduckgo", keyword |-> <<>>, n |-> j]
UnsplashUrl(query, i) == [provider |-> "unsplash", keyword |-> quote_plus(query), n |-> i]

\* lines 55-59: the image URLs of the results that carry one, in order; the
\* k-th URL found is DdgUrl(k)
RECURSIVE Usable(_, _, _)
Usable(results, j, k) ==
    IF j > Len(results) THEN <<>>
    ELSE IF results[j] THEN <<DdgUrl(k)>> \o Usable(results, j + 1, k + 1)
         ELSE Usable(results, j + 1, k)

\* search_images_backup without its try/except
search_images_backup_uncaught(query, max_results, fails) ==
    IF fails THEN [urls |-> <<>>, raised |-> TRUE]
    ELSE [urls |-> [k \in 1..max_results |-> UnsplashUrl(query, k - 1)], raised |-> FALSE]

\* search_images_backup with the same random parameter in every URL
search_images_backup_fixed_seed(query, max_results, fails) ==
    IF fails THEN [urls |-> <<>>, raised |-> FALSE]
    ELSE [urls |-> [k \in 1..max_results |-> UnsplashUrl(query, 0)], raised |-> FALSE]

\* fails: something inside the try block raises; the except clause returns []
search_images_backup(query, max_results, fails) ==
    IF fails THEN [urls |-> <<>>, raised |-> FALSE]
    ELSE [urls |-> [k \in 1..max_results |-> UnsplashUrl(query, k - 1)], raised |-> FALSE]

\* search_images with an except clause that gives up instead of falling back
search_images_no_fallback(query, max_results, available, prim, bfails) ==
    LET backup == search_images_backup(query, max_results, bfails)
        image_urls == Usable(prim.results, 1, 1)
    IN  IF available
        THEN IF prim.raises
             THEN [urls |-> <<>>, raised |-> FALSE, trace |-> <<"primary">>]
             ELSE IF image_urls # <<>>
                  THEN [urls |-> image_urls, raised |-> FALSE, trace |-> <<"primary">>]
                  ELSE [urls |-> backup.urls, raised |-> backup.raised,
                        trace |-> <<"primary", "backup">>]
        ELSE [urls |-> backup.urls, raised |-> backup.raised, trace |-> <<"backup">>]

\* search_images that asks the primary provider a second time before falling back
search_images_retry(query, max_results, available, prim, bfails) ==
    LET backup == search_images_backup(query, max_results, bfails)
        image_urls == Usable(prim.results, 1, 1)
    IN  IF available
        THEN IF prim.raises
             THEN [urls |-> backup.urls, raised |-> backup.raised,
                   trace |-> <<"primary", "primary", "backup">>]
             ELSE IF image_urls # <<>>
                  THEN [urls |-> image_urls, raised |-> FALSE, trace |-> <<"primary">>]
                  ELSE [urls |-> backup.urls, raised |-> backup.raised,
                        trace |-> <<"primary", "primary", "backup">>]
        ELSE [urls |-> backup.urls, raised |-> backup.raised, trace |-> <<"backup">>]

\* returns the URL list and the providers called, in call order
search_images(query, max_results, available, prim, bfails) ==
    LET backup == search_images_backup(query, max_results, bfails)
        image_urls == Usable(prim.results, 1, 1)
    IN  IF available
        THEN IF prim.raises
             THEN [urls |-> backup.urls, raised |-> backup.raised,
                   trace |-> <<"primary", "backup">>]
             ELSE IF image_urls # <<>>
                  THEN [urls |-> image_urls, raised |-> FALSE, trace |-> <<"primary">>]
                  ELSE [urls |-> backup.urls, raised |-> backup.raised,
                        trace |-> <<"primary", "backup">>]
        ELSE [urls |-> backup.urls, raised |-> backup.raised, trace |-> <<"backup">>]

----------------------------------------------------------------------------
(* image_scraper.py: download_image *)

\* content-type header -> extension
Ext(content_type) ==
    IF content_type \in {"image/jpeg", "image/jpg"} THEN ".jpg"
    ELSE IF content_type = "image/png" THEN ".png"
    ELSE IF content_type = "image/gif" THEN ".gif"
    ELSE IF content_type = "image/webp" THEN ".webp"
    ELSE ".jpg"

\* what one HTTP exchange can do:
\*   "ok"       the whole body (size bytes) arrives
\*   "timeout"  requests.exceptions.Timeout before any byte is written
\*   "error"    connection or HTTP status error before any byte is written
\*   "partial"  the file is opened, size bytes are written, then the stream breaks
DownloadAnswers ==
    { [kind |-> "ok",      ctype |-> "image/jpeg", size |-> MinBytes + 1, took |-> 0],
      [kind |-> "ok",      ctype |-> "text/html",  size |-> MinBytes,     took |-> 0],
      [kind |-> "timeout", ctype |-> "",           size |-> 0,            took |-> 4],
      [kind |-> "error",   ctype |-> "",           size |-> 0,            took |-> 4],
      [kind |-> "partial", ctype |-> "image/png",  size |-> MinBytes + 1, took |-> 0] }

\* download_image that catches requests.exceptions.Timeout only
download_image_uncaught(url, filename, o) ==
    LET filepath == Path("", filename.name, filename.index, filename.stamp, Ext(o.ctype))
    IN  CASE o.kind = "ok" ->
               [success |-> o.size > MinBytes,
                filepath |-> IF o.size > MinBytes THEN filepath ELSE NoPath,
                wrote |-> filepath, size |-> o.size, raised |-> FALSE]
          [] o.kind = "partial" ->
               [success |-> FALSE, filepath |-> NoPath,
                wrote |-> filepath, size |-> o.size, raised |-> TRUE]
          [] o.kind = "error" ->
               [success |-> FALSE, filepath |-> NoPath,
                wrote |-> NoPath, size |-> 0, raised |-> TRUE]
          [] OTHER ->
               [success |-> FALSE, filepath |-> NoPath,
                wrote |-> NoPath, size |-> 0, raised |-> FALSE]

\* download_image without the size verification of line 152
download_image_any_size(url, filename, o) ==
    LET filepath == Path("", filename.name, filename.index, filename.stamp, Ext(o.ctype))
    IN  CASE o.kind = "ok" ->
               [success |-> TRUE, filepath |-> filepath,
                wrote |-> filepath, size |-> o.size, raised |-> FALSE]
          [] o.kind = "partial" ->
               [success |-> FALSE, filepath |-> NoPath,
                wrote |-> filepath, size |-> o.size, raised |-> FALSE]
          [] OTHER ->
               [success |-> FALSE, filepath |-> NoPath,
                wrote |-> NoPath, size |-> 0, raised |-> FALSE]

\* returns (success, filepath), the file it wrote (NoPath when none) with its
\* size, and whether an exception left the function
download_image(url, filename, o) ==
    LET filepath == Path("", filename.name, filename.index, filename.stamp, Ext(o.ctype))
    IN  CASE o.kind = "ok" ->
               [success |-> o.size > MinBytes,
                filepath |-> IF o.size > MinBytes THEN filepath ELSE NoPath,
                wrote |-> filepath, size |-> o.size, raised |-> FALSE]
          [] o.kind = "partial" ->
               [success |-> FALSE, filepath |-> NoPath,
                wrote |-> filepath, size |-> o.size, raised |-> FALSE]
          [] OTHER ->
               [success |-> FALSE, filepath |-> NoPath,
                wrote |-> NoPath, size |-> 0, raised |-> FALSE]

----------------------------------------------------------------------------
(* database.py: the two inserts *)

NoUrl == [provider |-> "", keyword |-> <<>>, n |-> 0]

\* the dictionaries the callers build, before the save function stamps them
ScrapedData(query, url, filepath) ==
    [query |-> query, prompt |-> <<>>, url |-> url, filename |-> filepath,
     source |-> "duckduckgo_images", model |-> "", created_at |-> 0, type |-> ""]
AiData(prompt, filepath) ==
    [query |-> <<>>, prompt |-> prompt, url |-> NoUrl, filename |-> filepath,
     source |-> "", model |-> "pollinations_stable_diffusion", created_at |-> 0, type |-> ""]

\* insert_ok is the answer of db.images.insert_one (FALSE: it raised).  Returns
\* the bool of the function, the collection afterwards and whether an exception
\* left the function.
\* save_scraped_image without its try/except
save_scraped_image_uncaught(images, image_data, created_at, insert_ok) ==
    IF insert_ok
    THEN [ok |-> TRUE, raised |-> FALSE,
          images |-> Append(images, [image_data EXCEPT !.created_at = created_at,
                                                       !.type = "scraped"])]
    ELSE [ok |-> FALSE, raised |-> TRUE, images |-> images]

\* save_scraped_image that updates the record of the same query when there is one
save_scraped_image_upsert(images, image_data, created_at, insert_ok) ==
    LET doc == [image_data EXCEPT !.created_at = created_at, !.type = "scraped"]
        same == {k \in 1..Len(images) : images[k].query = image_data.query}
    IN  IF ~insert_ok THEN [ok |-> FALSE, raised |-> FALSE, images |-> images]
        ELSE IF same = {} THEN [ok |-> TRUE, raised |-> FALSE, images |-> Append(images, doc)]
        ELSE [ok |-> TRUE, raised |-> FALSE,
              images |-> [k \in 1..Len(images) |-> IF k \in same THEN doc ELSE images[k]]]

save_scraped_image(images, image_data, created_at, insert_ok) ==
    IF insert_ok
    THEN [ok |-> TRUE, raised |-> FALSE,
          images |-> Append(images, [image_data EXCEPT !.created_at = created_at,
                                                       !.type = "scraped"])]
    ELSE [ok |-> FALSE, raised |-> FALSE, images |-> images]

\* save_ai_generated_image without its try/except
save_ai_generated_image_uncaught(images, image_data, created_at, insert_ok) ==
    IF insert_ok
    THEN [ok |-> TRUE, raised |-> FALSE,
          images |-> Append(images, [image_data EXCEPT !.created_at = created_at,
                                                       !.type = "ai_generated"])]
    ELSE [ok |-> FALSE, raised |-> TRUE, images |-> images]

save_ai_generated_image(images, image_data, created_at, insert_ok) ==
    IF insert_ok
    THEN [ok |-> TRUE, raised |-> FALSE,
          images |-> Append(images, [image_data EXCEPT !.created_at = created_at,
                                                       !.type = "ai_generated"])]
    ELSE [ok |-> FALSE, raised |-> FALSE, images |-> images]

NotSaved(images) == [ok |-> FALSE, raised |-> FALSE, images |-> images]

\* what became of the insert of one item: "none" when no save function was called
SaveStatus(called, saved) == IF ~called THEN "none" ELSE IF saved.ok THEN "ok" ELSE "failed"

----------------------------------------------------------------------------
(* database.py: the reads *)

InSeq(x, q) == \E k \in 1..Len(q) : q[k] = x

\* the image_type argument None
NoType == ""

\* .sort("created_at", -1): newest first, documents of one instant in insertion order
RECURSIVE InsertByDate(_, _)
InsertByDate(doc, sorted) ==
    IF sorted = <<>> THEN <<doc>>
    ELSE IF doc.created_at >= Head(sorted).created_at THEN <<doc>> \o sorted
         ELSE <<Head(sorted)>> \o InsertByDate(doc, Tail(sorted))

RECURSIVE SortNewestFirst(_)
SortNewestFirst(docs) ==
    IF docs = <<>> THEN <<>> ELSE InsertByDate(Head(docs), SortNewestFirst(Tail(docs)))

\* db.images.find(query): the documents whose fields equal those of the query
Find(images, image_type) ==
    SelectSeq(images, LAMBDA d : image_type = NoType \/ d.type = image_type)

\* db.images.distinct("query", filter): the values of the field in the documents
\* that have it, each value once
RECURSIVE DistinctQueries(_)
DistinctQueries(docs) ==
    IF docs = <<>> THEN <<>>
    ELSE LET rest == DistinctQueries(SubSeq(docs, 1, Len(docs) - 1))
             q == docs[Len(docs)].query
         IN  IF q = <<>> \/ InSeq(q, rest) THEN rest ELSE Append(rest, q)

NoCounts == [scraped |-> 0, ai_generated |-> 0, total |-> 0]

\* fails: the query raises (server unreachable); the except clause returns the
\* empty value.  Each read returns its value and the collection afterwards.
get_all_images(images, image_type, fails) ==
    IF fails THEN [list |-> <<>>, images |-> images]
    ELSE [list |-> SortNewestFirst(Find(images, image_type)), images |-> images]

\* get_search_history that leaves out the type filter
get_search_history_unfiltered(images, fails) ==
    IF fails THEN [list |-> <<>>, images |-> images]
    ELSE [list |-> DistinctQueries(images), images |-> images]

get_search_history(images, fails) ==
    IF fails THEN [list |-> <<>>, images |-> images]
    ELSE [list |-> DistinctQueries(Find(images, "scraped")), images |-> images]

get_image_count(images, fails) ==
    IF fails THEN [counts |-> NoCounts, images |-> images]
    ELSE LET scraped_count == Len(Find(images, "scraped"))
             ai_count == Len(Find(images, "ai_generated"))
         IN  [counts |-> [scraped |-> scraped_count, ai_generated |-> ai_count,
                          total |-> scraped_count + ai_count],
              images |-> images]

\* a call of a function of database.py made by a client of the module: the
\* function, its arguments, whether its try block raised, and what it returned
\* (ok for the saves; documents, queries or counts for the reads)
Reply(op, doc, image_type, raised, ok, docs, queries, counts) ==
    [op |-> op, doc |-> doc, image_type |-> image_type, raised |-> raised,
     ok |-> ok, docs |-> docs, queries |-> queries, counts |-> counts]

NoDoc == [query |-> <<>>, prompt |-> <<>>, url |-> NoUrl, filename |-> NoPath,
          source |-> "", model |-> "", created_at |-> 0, type |-> ""]

NoReply == Reply("", NoDoc, NoType, FALSE, FALSE, <<>>, <<>>, NoCounts)

NoTally == [scraped |-> 0, ai_generated |-> 0, queries |-> {}, calls |-> 0]

\* the tally after a call of the save function fn for query that returned ok
Tallied(t, fn, query, ok) ==
    IF ~ok THEN t
    ELSE IF fn = "save_scraped_image"
         THEN [t EXCEPT !.scraped = @ + 1, !.queries = @ \cup {query}]
         ELSE [t EXCEPT !.ai_generated = @ + 1]

----------------------------------------------------------------------------
(* database.py: get_database_connection *)

UserPass == <<"u","s","e","r","n","a","m","e",":","p","a","s","s","w","o","r","d">>
Scheme == <<"m","o","n","g","o","d","b",":","/","/">>

\* os.getenv("MONGODB_URI"): set is FALSE when the variable is absent (None)
Unset == [set |-> FALSE, value |-> <<>>]
Uris == { Unset,
          [set |-> TRUE, value |-> <<>>],
          [set |-> TRUE, value |-> Scheme \o UserPass \o <<"@","h">>],
          [set |-> TRUE, value |-> Scheme \o <<"u",":","p","@","h">>] }

\* what MongoClient(...) and the ping can do:
\*   "ok"                           the server answers the ping
\*   "InvalidURI"                   MongoClient raises, no client exists
\*   "ConnectionFailure"            the ping raises it
\*   "ServerSelectionTimeoutError"  the ping raises it; in pymongo it is a
\*                                  subclass of ConnectionFailure, so the first
\*                                  except clause catches it
\*   "OperationFailure"             the ping raises it (authentication)
ConnAnswers == {"ok", "InvalidURI", "ConnectionFailure", "ServerSelectionTimeoutError",
                "OperationFailure"}

\* line 27
NotConfigured(mongodb_uri) ==
    ~mongodb_uri.set \/ mongodb_uri.value = <<>> \/ Contains(mongodb_uri.value, UserPass)

\* get_database_connection without the check of line 27
get_database_connection_unchecked(mongodb_uri, o) ==
    CASE o = "ok" ->
           [db |-> DB, error |-> None, client |-> TRUE, pinged |-> TRUE, raised |-> FALSE]
      [] o = "InvalidURI" ->
           [db |-> None, error |-> "Database error", client |-> FALSE, pinged |-> FALSE,
            raised |-> FALSE]
      [] o \in {"ConnectionFailure", "ServerSelectionTimeoutError"} ->
           [db |-> None, error |-> "Failed to connect", client |-> TRUE, pinged |-> TRUE,
            raised |-> FALSE]
      [] OTHER ->
           [db |-> None, error |-> "Database error", client |-> TRUE, pinged |-> TRUE,
            raised |-> FALSE]

\* returns the pair (db, error), whether a MongoClient was created, whether the
\* server was contacted and whether an exception left the function
get_database_connection(mongodb_uri, o) ==
    IF NotConfigured(mongodb_uri)
    THEN [db |-> None, error |-> "not configured", client |-> FALSE, pinged |-> FALSE,
          raised |-> FALSE]
    ELSE CASE o = "ok" ->
                [db |-> DB, error |-> None, client |-> TRUE, pinged |-> TRUE, raised |-> FALSE]
           [] o = "InvalidURI" ->
                [db |-> None, error |-> "Database error", client |-> FALSE, pinged |-> FALSE,
                 raised |-> FALSE]
           [] o \in {"ConnectionFailure", "ServerSelectionTimeoutError"} ->
                [db |-> None, error |-> "Failed to connect", client |-> TRUE, pinged |-> TRUE,
                 raised |-> FALSE]
           [] OTHER ->
                [db |-> None, error |-> "Database error", client |-> TRUE, pinged |-> TRUE,
                 raised |-> FALSE]

\* the environment variable, and the call once it was made
Connection(mongodb_uri, called, o, r) ==
    [env |-> mongodb_uri, called |-> called, answer |-> o, db |-> r.db, error |-> r.error,
     client |-> r.client, pinged |-> r.pinged, raised |-> r.raised,
     calls |-> IF called THEN 1 ELSE 0]

\* one more call of get_database_connection in the same process
Reconnected(c, o, r) == [Connection(c.env, TRUE, o, r) EXCEPT !.calls = c.calls + 1]

NoConn == Connection(Unset, FALSE, "",
                     [db |-> None, error |-> None, client |-> FALSE, pinged |-> FALSE,
                      raised |-> FALSE])

----------------------------------------------------------------------------
(* main.py: the menus *)

\* int(s): optional sign, then decimal digits; anything else is a ValueError
DigitValue(c) == CHOOSE d \in 0..9 : DigitChars[d + 1] = c
RECURSIVE Decimal(_)
Decimal(s) == IF s = <<>> THEN 0
              ELSE 10 * Decimal(SubSeq(s, 1, Len(s) - 1)) + DigitValue(s[Len(s)])
int(text) ==
    LET s == strip(text)
        signed == s # <<>> /\ s[1] \in {"+", "-"}
        body == IF signed THEN Tail(s) ELSE s
    IN  IF body # <<>> /\ \A k \in 1..Len(body) : body[k] \in Digits
        THEN [ok |-> TRUE,
              value |-> IF signed /\ s[1] = "-" THEN 0 - Decimal(body) ELSE Decimal(body)]
        ELSE [ok |-> FALSE, value |-> 0]

Max(a, b) == IF a > b THEN a ELSE b

\* s.lower() on the characters used here
lower(s) == [i \in 1..Len(s) |-> IF s[i] = "Y" THEN "y" ELSE IF s[i] = "N" THEN "n" ELSE s[i]]

\* lines 68-72 and 112-116 without the max/min of lines 70 and 114
MenuCount_unclamped(count_input, default, most) ==
    IF count_input = <<>> THEN default
    ELSE IF int(count_input).ok THEN int(count_input).value
         ELSE default

\* lines 68-72 and 112-116: the count for the text count_input
MenuCount(count_input, default, most) ==
    IF count_input = <<>> THEN Max(1, Min(most, default))
    ELSE IF int(count_input).ok THEN Max(1, Min(most, int(count_input).value))
         ELSE default

\* the call a menu makes, if any
NoPassed == [called |-> FALSE, fn |-> "", arg |-> <<>>, count |-> 0]
Passed(fn, arg, count) == [called |-> TRUE, fn |-> fn, arg |-> arg, count |-> count]

\* lines 59-77, for the two texts the user types
search_images_menu(query_in, count_in) ==
    LET query == strip(query_in)
        count_input == strip(count_in)
    IN  IF query = <<>> THEN NoPassed
        ELSE Passed("scrape_and_download", query, MenuCount(count_input, 5, 20))

\* lines 101-120, for the three texts the user types
ai_generator_menu(prompt_in, multi_in, count_in) ==
    LET prompt == strip(prompt_in)
        multi == lower(strip(multi_in))
        count_input == strip(count_in)
    IN  IF prompt = <<>> THEN NoPassed
        ELSE IF multi = <<"y">>
             THEN Passed("generate_multiple_images", prompt, MenuCount(count_input, 3, 5))
             ELSE Passed("generate_ai_image", prompt, 1)

\* a menu that does not look at db before it reads the counts
view_statistics_menu_unguarded(dbh, images, fails) ==
    [called |-> TRUE, counts |-> get_image_count(images, dbh = None \/ fails).counts,
     queries |-> <<>>]

\* lines 136-144: called tells whether get_image_count was called
view_statistics_menu(dbh, images, fails) ==
    IF dbh = None THEN [called |-> FALSE, counts |-> NoCounts, queries |-> <<>>]
    ELSE [called |-> TRUE, counts |-> get_image_count(images, fails).counts, queries |-> <<>>]

\* lines 160-172
view_history_menu(dbh, images, fails) ==
    IF dbh = None THEN [called |-> FALSE, counts |-> NoCounts, queries |-> <<>>]
    ELSE [called |-> TRUE, counts |-> NoCounts, queries |-> get_search_history(images, fails).list]

\* the reply of the read a menu made, the last reply when it made none
MenuReply(op, m, fails, last) ==
    IF m.called THEN Reply(op, NoDoc, NoType, fails, FALSE, <<>>, m.queries, m.counts)
    ELSE last

\* lines 203-232: the menu entry a choice selects
CliChoices == {<<"1">>, <<"2">>, <<"3">>, <<"4">>, <<"5">>, <<"6">>, <<" ", "5">>, <<>>}

\* main loop whose else branch leaves the program
CliRoute_else_exit(choice) ==
    CASE strip(choice) = <<"1">> -> "search"
      [] strip(choice) = <<"2">> -> "generate"
      [] strip(choice) = <<"3">> -> "statistics"
      [] strip(choice) = <<"4">> -> "history"
      [] OTHER -> "exit"

CliRoute(choice) ==
    CASE strip(choice) = <<"1">> -> "search"
      [] strip(choice) = <<"2">> -> "generate"
      [] strip(choice) = <<"3">> -> "statistics"
      [] strip(choice) = <<"4">> -> "history"
      [] strip(choice) = <<"5">> -> "exit"
      [] OTHER -> "invalid"

----------------------------------------------------------------------------
(* app_web.py *)

\* lines 180-186: nav_options, label -> page
NavLabels == {"Dashboard", "Image Search", "AI Studio", "Magic Tools", "My Gallery"}
nav_options(label) ==
    CASE label = "Dashboard" -> "home"
      [] label = "Image Search" -> "search"
      [] label = "AI Studio" -> "generate"
      [] label = "Magic Tools" -> "tools"
      [] label = "My Gallery" -> "gallery"

\* lines 214-223: the operation behind a page: show_search calls
\* scrape_and_download, show_generator calls generate_ai_image, show_tools
\* removes the background of an uploaded image, show_gallery lists the files
\* of the download folder
WebRoute(page) ==
    CASE page = "search" -> "search"
      [] page = "generate" -> "generate"
      [] page = "tools" -> "remove-background"
      [] page = "gallery" -> "list"
      [] OTHER -> "home"

\* st.session_state: the keys 'db' and 'db_ok'
NoSession == [set |-> FALSE, db |-> None, db_ok |-> FALSE]

\* get_db that connects again while the session has no usable handle
get_db_retry(session, c) ==
    LET s == IF session.set /\ session.db_ok THEN session
             ELSE IF c.error = None /\ c.db # None
                  THEN [set |-> TRUE, db |-> c.db, db_ok |-> TRUE]
                  ELSE [set |-> TRUE, db |-> None, db_ok |-> FALSE]
    IN  [session |-> s, db |-> IF s.db_ok THEN s.db ELSE None,
         called |-> ~(session.set /\ session.db_ok)]

\* lines 126-137: c is the result of get_database_connection, which is called
\* when the session has no 'db' key; returns the session, the handle and
\* whether get_database_connection was called
get_db(session, c) ==
    LET s == IF session.set THEN session
             ELSE IF c.error = None /\ c.db # None
                  THEN [set |-> TRUE, db |-> c.db, db_ok |-> TRUE]
                  ELSE [set |-> TRUE, db |-> None, db_ok |-> FALSE]
    IN  [session |-> s, db |-> IF s.db_ok THEN s.db ELSE None, called |-> ~session.set]

\* what the user typed into the menu that made the last call
NoTyped == [query |-> <<>>, multi |-> <<>>, count |-> <<>>]

NoUi == [app |-> "", page |-> "", failed |-> FALSE, session |-> NoSession,
         choice |-> <<>>, typed |-> NoTyped, passed |-> NoPassed]

----------------------------------------------------------------------------
(* image_scraper.py: one iteration of the loop of scrape_and_download *)

\* i is the 1-based position of url, t the time at which the iteration starts
ScrapeStep(downloaded, images, dbh, query, url, i, t, o, insert_ok) ==
    LET safe_query == replace(re_sub(query))
        timestamp == t * MsPerTick
        filename == [name |-> safe_query, index |-> i, stamp |-> timestamp]
        r == download_image(url, filename, o)
        called == ~r.raised /\ r.success /\ dbh # None
        saved == IF called
                 THEN save_scraped_image(images, ScrapedData(query, url, r.filepath),
                                         t + o.took, insert_ok)
                 ELSE NotSaved(images)
    IN  [downloaded |-> IF ~r.raised /\ r.success THEN Append(downloaded, r.filepath)
                        ELSE downloaded,
         images |-> saved.images,
         saved |-> SaveStatus(called, saved),
         success |-> ~r.raised /\ r.success,
         filepath |-> r.filepath,
         wrote |-> r.wrote,
         size |-> r.size,
         raised |-> r.raised \/ saved.raised,
         t |-> t + o.took + SleepTicks]

----------------------------------------------------------------------------
(* ai_generator.py *)

GenAnswers ==
    { [kind |-> "ok",      size |-> MinBytes + 1, took |-> 0],
      [kind |-> "ok",      size |-> MinBytes + 1, took |-> TicksPerSecond],
      [kind |-> "ok",      size |-> MinBytes,     took |-> 0],
      [kind |-> "ok",      size |-> 0,            took |-> 0],
      [kind |-> "timeout", size |-> 0,            took |-> TicksPerSecond],
      [kind |-> "error",   size |-> 0,            took |-> TicksPerSecond],
      [kind |-> "partial", size |-> MinBytes + 1, took |-> 0] }

\* t is the time of the call.  Returns the value of the function (NoPath for
\* None), the file it wrote with its size, the collection and the time afterwards.
generate_ai_image(prompt, dbh, images, t, o, insert_ok) ==
    LET safe_prompt == replace(strip(Slice(re_sub(prompt), PromptCap)))
        timestamp == (t + o.took) \div TicksPerSecond
        filepath == Path("ai_", safe_prompt, 0, timestamp, ".png")
        called == o.kind = "ok" /\ dbh # None
        saved == IF called
                 THEN save_ai_generated_image(images, AiData(prompt, filepath),
                                              t + o.took, insert_ok)
                 ELSE NotSaved(images)
    IN  CASE o.kind = "ok" ->
               [ret |-> IF saved.raised THEN NoPath ELSE filepath,
                wrote |-> filepath, size |-> o.size, saved |-> SaveStatus(called, saved),
                images |-> saved.images, t |-> t + o.took]
          [] o.kind = "partial" ->
               [ret |-> NoPath, wrote |-> filepath, size |-> o.size, saved |-> "none",
                images |-> images, t |-> t + o.took]
          [] OTHER ->
               [ret |-> NoPath, wrote |-> NoPath, size |-> 0, saved |-> "none",
                images |-> images, t |-> t + o.took]

\* a variation suffix without the index
VariedPrompt_no_index(prompt, i) ==
    prompt \o <<",", " ", "v","a","r","i","a","t","i","o","n">>
           \o <<",", " ", "u","n","i","q","u","e", " ", "s","t","y","l","e">>

\* f"{prompt}, variation {i+1}, unique style", i counted from 0
VariedPrompt(prompt, i) ==
    prompt \o <<",", " ", "v","a","r","i","a","t","i","o","n", " ">> \o str(i + 1)
           \o <<",", " ", "u","n","i","q","u","e", " ", "s","t","y","l","e">>

\* one iteration of the loop of generate_multiple_images
GenStep(generated, images, dbh, prompt, i, t, o, insert_ok) ==
    LET varied_prompt == VariedPrompt(prompt, i)
        g == generate_ai_image(varied_prompt, dbh, images, t, o, insert_ok)
    IN  [generated |-> IF g.ret # NoPath THEN Append(generated, g.ret) ELSE generated,
         images |-> g.images,
         saved |-> g.saved,
         success |-> g.ret # NoPath,
         filepath |-> g.ret,
         request |-> varied_prompt,
         wrote |-> g.wrote,
         size |-> g.size,
         t |-> g.t]

----------------------------------------------------------------------------
(* State *)

\* what the primary provider did in a call of search_images, and the image URLs
\* its answer carried
PrimaryDid(available, prim) ==
    IF ~available THEN [did |-> "unavailable", found |-> <<>>]
    ELSE IF prim.raises THEN [did |-> "raised", found |-> <<>>]
    ELSE [did |-> "answered", found |-> Usable(prim.results, 1, 1)]

\* the local variables of a batch function, with a record of what it was given:
\* primary is what the primary search provider did, bfailed whether the backup
\* provider was made to fail, attempts the item attempts made so far, ledger0 the
\* size of the collection when the function was called
NoCall == [fn |-> "", arg |-> <<>>, count |-> 0,
           primary |-> [did |-> "", found |-> <<>>], bfailed |-> FALSE,
           urls |-> <<>>, trace |-> <<>>, i |-> 0, out |-> <<>>, attempts |-> <<>>,
           ledger0 |-> 0]

\* one item attempt of a batch, as the loops of the two batch functions see it
Attempt(i, url, request, o, st) ==
    [item |-> i, url |-> url, request |-> request, answer |-> o, success |-> st.success,
     filepath |-> st.filepath, wrote |-> st.wrote, size |-> st.size, saved |-> st.saved]

\* a completed call: its arguments, what it did and the list it returned
Returned(c, result, raised) ==
    [fn |-> c.fn, arg |-> c.arg, count |-> c.count, primary |-> c.primary, bfailed |-> c.bfailed,
     urls |-> c.urls, trace |-> c.trace, attempts |-> c.attempts, ledger0 |-> c.ledger0,
     result |-> result, raised |-> raised]

NoReturn == Returned(NoCall, <<>>, FALSE)

Logged(w, st, n, arg) ==
    IF st.wrote # NoPath THEN Append(w, [path |-> st.wrote, call |-> n, arg |-> arg]) ELSE w
Written(d, st) == IF st.wrote # NoPath THEN WriteFile(d, st.wrote, st.size) ELSE d

Init ==
    /\ DDGS_AVAILABLE \in BOOLEAN
    /\ db \in Handles
    /\ folder \in BOOLEAN
    /\ now = 0
    /\ disk = <<>>
    /\ ledger = <<>>
    /\ pc = "idle"
    /\ call = NoCall
    /\ ret = NoReturn
    /\ ncalls = 0
    /\ used = 0
    /\ writes = <<>>
    /\ shadow = <<>>
    /\ reply = NoReply
    /\ tally = NoTally
    /\ conn = NoConn
    /\ ui = NoUi

----------------------------------------------------------------------------
(* scrape_and_download(query, count, db) *)

\* lines 181-193: create the folder, search, return [] when nothing was found
ScrapeStart(query, count, prim, bfails) ==
    /\ pc = "idle"
    /\ ncalls < MaxCalls
    /\ LET s == search_images(query, count, DDGS_AVAILABLE, prim, bfails)
           c == [NoCall EXCEPT !.fn = "scrape_and_download", !.arg = query,
                               !.count = count, !.primary = PrimaryDid(DDGS_AVAILABLE, prim),
                               !.bfailed = bfails /\ s.trace[Len(s.trace)] = "backup",
                               !.urls = s.urls, !.trace = s.trace,
                               !.i = 1, !.ledger0 = Len(ledger)]
       IN  /\ used + Len(s.urls) <= MaxAttempts
           /\ folder' = TRUE
           /\ IF s.raised \/ s.urls = <<>>
              THEN /\ ret' = Returned(c, <<>>, s.raised)
                   /\ UNCHANGED <<pc, call>>
              ELSE /\ pc' = "scrape"
                   /\ call' = c
                   /\ UNCHANGED ret
    /\ ncalls' = ncalls + 1
    /\ shadow' = <<>>
    /\ UNCHANGED <<DDGS_AVAILABLE, db, now, disk, ledger, used, writes>>

\* lines 195-222: one iteration of the loop
ScrapeItem(o, insert_ok) ==
    /\ pc = "scrape"
    /\ call.i <= Len(call.urls)
    /\ LET url == call.urls[call.i]
           st == ScrapeStep(call.out, ledger, db, call.arg, url, call.i, now, o, insert_ok)
           sh == ScrapeStep(shadow, <<>>, None, call.arg, url, call.i, now, o, FALSE)
           c == [call EXCEPT !.i = @ + 1, !.out = st.downloaded,
                             !.attempts = Append(@, Attempt(call.i, url, <<>>, o, st))]
       IN  /\ disk' = Written(disk, st)
           /\ writes' = Logged(writes, st, ncalls, call.arg)
           /\ ledger' = st.images
           /\ now' = st.t
           /\ shadow' = sh.downloaded
           /\ IF st.raised
              THEN /\ ret' = Returned(c, <<>>, TRUE)
                   /\ pc' = "idle"
                   /\ call' = NoCall
              ELSE /\ call' = c
                   /\ UNCHANGED <<pc, ret>>
    /\ used' = used + 1
    /\ UNCHANGED <<DDGS_AVAILABLE, db, folder, ncalls>>

\* lines 224-227: return downloaded
ScrapeReturn ==
    /\ pc = "scrape"
    /\ call.i > Len(call.urls)
    /\ ret' = Returned(call, call.out, FALSE)
    /\ pc' = "idle"
    /\ call' = NoCall
    /\ UNCHANGED <<DDGS_AVAILABLE, db, folder, now, disk, ledger, ncalls, used, writes, shadow>>

----------------------------------------------------------------------------
(* generate_multiple_images(prompt, count, db) *)

\* lines 112-114
GenStart(prompt, count) ==
    /\ pc = "idle"
    /\ ncalls < MaxCalls
    /\ used + count <= MaxAttempts
    /\ pc' = "genmulti"
    /\ call' = [NoCall EXCEPT !.fn = "generate_multiple_images", !.arg = prompt,
                              !.count = count, !.i = 0, !.ledger0 = Len(ledger)]
    /\ ncalls' = ncalls + 1
    /\ shadow' = <<>>
    /\ UNCHANGED <<DDGS_AVAILABLE, db, folder, now, disk, ledger, ret, used, writes>>

\* lines 116-125: one iteration of the loop, i in range(count)
GenItem(o, insert_ok) ==
    /\ pc = "genmulti"
    /\ call.i < call.count
    /\ LET st == GenStep(call.out, ledger, db, call.arg, call.i, now, o, insert_ok)
           sh == GenStep(shadow, <<>>, None, call.arg, call.i, now, o, FALSE)
       IN  /\ disk' = Written(disk, st)
           /\ writes' = Logged(writes, st, ncalls, call.arg)
           /\ ledger' = st.images
           /\ now' = st.t
           /\ shadow' = sh.generated
           /\ call' = [call EXCEPT !.i = @ + 1, !.out = st.generated,
                                   !.attempts = Append(@, Attempt(call.i + 1, NoUrl,
                                                                  st.request, o, st))]
    /\ folder' = TRUE
    /\ used' = used + 1
    /\ UNCHANGED <<DDGS_AVAILABLE, db, pc, ret, ncalls>>

\* lines 127-128: return generated
GenReturn ==
    /\ pc = "genmulti"
    /\ call.i >= call.count
    /\ ret' = Returned(call, call.out, FALSE)
    /\ pc' = "idle"
    /\ call' = NoCall
    /\ UNCHANGED <<DDGS_AVAILABLE, db, folder, now, disk, ledger, ncalls, used, writes, shadow>>

----------------------------------------------------------------------------
(* generate_ai_image(prompt, db) called on its own (main.py, ai_generator_menu) *)

\* the returned path p is recorded as the list <<p>>, None as the empty list
GenerateOne(prompt, o, insert_ok) ==
    /\ pc = "idle"
    /\ ncalls < MaxCalls
    /\ used + 1 <= MaxAttempts
    /\ LET g == generate_ai_image(prompt, db, ledger, now, o, insert_ok)
           sh == generate_ai_image(prompt, None, <<>>, now, o, FALSE)
           st == [success |-> g.ret # NoPath, filepath |-> g.ret,
                  wrote |-> g.wrote, size |-> g.size, saved |-> g.saved]
           c == [NoCall EXCEPT !.fn = "generate_ai_image", !.arg = prompt, !.count = 1,
                               !.i = 1, !.ledger0 = Len(ledger),
                               !.attempts = <<Attempt(1, NoUrl, prompt, o, st)>>]
       IN  /\ disk' = Written(disk, st)
           /\ writes' = Logged(writes, st, ncalls + 1, prompt)
           /\ ledger' = g.images
           /\ now' = g.t
           /\ shadow' = IF sh.ret # NoPath THEN <<sh.ret>> ELSE <<>>
           /\ ret' = Returned(c, IF g.ret # NoPath THEN <<g.ret>> ELSE <<>>, FALSE)
    /\ folder' = TRUE
    /\ ncalls' = ncalls + 1
    /\ used' = used + 1
    /\ UNCHANGED <<DDGS_AVAILABLE, db, pc, call>>

----------------------------------------------------------------------------

\* The environment answers only the calls that are made: the primary provider
\* when the library is importable, the fallback when the primary gave no URL,
\* insert_one when there is a handle.
NotCalled == [raises |-> FALSE, results |-> <<>>]
PrimaryChoices == IF DDGS_AVAILABLE THEN PrimaryAnswers ELSE {NotCalled}
BackupChoices(prim) ==
    IF ~DDGS_AVAILABLE \/ prim.raises \/ Usable(prim.results, 1, 1) = <<>>
    THEN BOOLEAN ELSE {FALSE}
InsertChoices == IF db # None THEN BOOLEAN ELSE {TRUE}

Next ==
    \/ /\ \E query \in Queries, count \in Counts, prim \in PrimaryChoices :
             \E bfails \in BackupChoices(prim) : ScrapeStart(query, count, prim, bfails)
       /\ UNCHANGED clientvars
    \/ /\ \E o \in DownloadAnswers, insert_ok \in InsertChoices : ScrapeItem(o, insert_ok)
       /\ UNCHANGED clientvars
    \/ ScrapeReturn /\ UNCHANGED clientvars
    \/ /\ \E prompt \in Prompts, count \in Counts : GenStart(prompt, count)
       /\ UNCHANGED clientvars
    \/ /\ \E o \in GenAnswers, insert_ok \in InsertChoices : GenItem(o, insert_ok)
       /\ UNCHANGED clientvars
    \/ GenReturn /\ UNCHANGED clientvars
    \/ /\ \E prompt \in Prompts, o \in GenAnswers, insert_ok \in InsertChoices :
             GenerateOne(prompt, o, insert_ok)
       /\ UNCHANGED clientvars

Spec == Init /\ [][Next]_vars

----------------------------------------------------------------------------
(* A client of database.py: a program that holds a handle and calls the       *)
(* functions of the module directly, as the __main__ block of database.py     *)
(* does, between calls of the acquisition functions.                          *)

DbQueries == { <<"c","a","t">>, <<"d","o","g">> }

\* the dictionaries such a client passes to the save functions; some carry a
\* "type" key of their own, and one AI dictionary a "query" key
ScrapedInputs ==
    { [ScrapedData(q, DdgUrl(1), Path("", q, 1, 0, ".jpg")) EXCEPT !.type = ty] :
         q \in DbQueries, ty \in {"", "ai_generated"} }
AiInputs ==
    { AiData(<<"o","w","l">>, Path("ai_", <<"o","w","l">>, 0, 0, ".png")),
      [AiData(<<"o","w","l">>, Path("ai_", <<"o","w","l">>, 0, 0, ".png"))
          EXCEPT !.type = "scraped", !.query = <<"o","w","l">>] }
ImageTypes == {NoType, "ai_generated"}

DbInit == Init /\ db = DB /\ DDGS_AVAILABLE

\* save_scraped_image(db, image_data)
DbSaveScraped(image_data, insert_ok) ==
    /\ pc = "idle"
    /\ tally.calls < MaxSaves
    /\ LET r == save_scraped_image(ledger, image_data, now, insert_ok)
       IN  /\ ledger' = r.images
           /\ reply' = Reply("save_scraped_image", image_data, NoType, ~insert_ok, r.ok,
                             <<>>, <<>>, NoCounts)
           /\ tally' = [Tallied(tally, "save_scraped_image", image_data.query, r.ok)
                           EXCEPT !.calls = @ + 1]
    /\ UNCHANGED <<DDGS_AVAILABLE, db, folder, now, disk, pc, call, ret, ncalls, used, writes,
                   shadow, conn, ui>>

\* save_ai_generated_image(db, image_data)
DbSaveAi(image_data, insert_ok) ==
    /\ pc = "idle"
    /\ tally.calls < MaxSaves
    /\ LET r == save_ai_generated_image(ledger, image_data, now, insert_ok)
       IN  /\ ledger' = r.images
           /\ reply' = Reply("save_ai_generated_image", image_data, NoType, ~insert_ok, r.ok,
                             <<>>, <<>>, NoCounts)
           /\ tally' = [Tallied(tally, "save_ai_generated_image", image_data.query, r.ok)
                           EXCEPT !.calls = @ + 1]
    /\ UNCHANGED <<DDGS_AVAILABLE, db, folder, now, disk, pc, call, ret, ncalls, used, writes,
                   shadow, conn, ui>>

\* get_all_images(db, image_type)
DbGetAllImages(image_type, fails) ==
    /\ pc = "idle"
    /\ LET r == get_all_images(ledger, image_type, fails)
       IN  /\ ledger' = r.images
           /\ reply' = Reply("get_all_images", NoDoc, image_type, fails, FALSE, r.list, <<>>,
                             NoCounts)
    /\ UNCHANGED <<DDGS_AVAILABLE, db, folder, now, disk, pc, call, ret, ncalls, used, writes,
                   shadow, tally, conn, ui>>

\* get_search_history(db)
DbGetSearchHistory(fails) ==
    /\ pc = "idle"
    /\ LET r == get_search_history(ledger, fails)
       IN  /\ ledger' = r.images
           /\ reply' = Reply("get_search_history", NoDoc, NoType, fails, FALSE, <<>>, r.list,
                             NoCounts)
    /\ UNCHANGED <<DDGS_AVAILABLE, db, folder, now, disk, pc, call, ret, ncalls, used, writes,
                   shadow, tally, conn, ui>>

\* get_image_count(db)
DbGetImageCount(fails) ==
    /\ pc = "idle"
    /\ LET r == get_image_count(ledger, fails)
       IN  /\ ledger' = r.images
           /\ reply' = Reply("get_image_count", NoDoc, NoType, fails, FALSE, <<>>, <<>>,
                             r.counts)
    /\ UNCHANGED <<DDGS_AVAILABLE, db, folder, now, disk, pc, call, ret, ncalls, used, writes,
                   shadow, tally, conn, ui>>

\* the acquisition functions called by the same client: the tally follows the
\* insert of the item attempt just made, and the last reply is forgotten
ItemTallied(fn) ==
    LET f == IF pc' = "idle" THEN ret' ELSE call'
    IN  /\ tally' = Tallied(tally, fn, f.arg, Last(f.attempts).saved = "ok")
        /\ reply' = NoReply
        /\ UNCHANGED appvars

\* the answers the providers give to this client
DbPrimaryChoices == {[raises |-> FALSE, results |-> <<TRUE>>]}
DbDownloadAnswers == {o \in DownloadAnswers : o.ctype = "image/jpeg"}
DbGenAnswers == {o \in GenAnswers : o.took = 0 /\ o.size > MinBytes}

DbNext ==
    \/ \E image_data \in ScrapedInputs, insert_ok \in BOOLEAN :
          DbSaveScraped(image_data, insert_ok)
    \/ \E image_data \in AiInputs, insert_ok \in BOOLEAN : DbSaveAi(image_data, insert_ok)
    \/ \E image_type \in ImageTypes, fails \in BOOLEAN : DbGetAllImages(image_type, fails)
    \/ \E fails \in BOOLEAN : DbGetSearchHistory(fails)
    \/ \E fails \in BOOLEAN : DbGetImageCount(fails)
    \/ /\ \E prim \in DbPrimaryChoices : ScrapeStart(<<"c","a","t">>, 1, prim, FALSE)
       /\ UNCHANGED clientvars
    \/ /\ \E o \in DbDownloadAnswers, insert_ok \in BOOLEAN : ScrapeItem(o, insert_ok)
       /\ ItemTallied("save_scraped_image")
    \/ ScrapeReturn /\ UNCHANGED clientvars
    \/ /\ \E o \in DbGenAnswers, insert_ok \in BOOLEAN :
             GenerateOne(<<"o","w","l">>, o, insert_ok)
       /\ ItemTallied("save_ai_generated_image")

DbSpec == DbInit /\ [][DbNext]_vars

----------------------------------------------------------------------------
(* The applications: main.py (command line) and app_web.py (one web session)  *)

\* what the user types into the prompts of the command line menus
TypedQueries == { <<>>, <<" ">>, <<" ","c","a","t">> }
TypedCounts == { <<>>, <<"x">>, <<"0">>, <<"-","3">>, <<"2">>, <<"9","9">>, <<"2",".","5">> }
TypedMulti == { <<>>, <<"Y">>, <<"n">> }

\* what the user enters into the widgets of the web pages; st.number_input
\* ("Count", 1, 10, 4) yields an integer of 1..10
WebQueries == { <<"c","a","t">> }
WebCounts == {1, 4}

AppInit ==
    /\ DDGS_AVAILABLE \in BOOLEAN
    /\ db = None
    /\ folder = FALSE
    /\ now = 0
    /\ disk = <<>>
    /\ ledger = <<>>
    /\ pc = "idle"
    /\ call = NoCall
    /\ ret = NoReturn
    /\ ncalls = 0
    /\ used = 0
    /\ writes = <<>>
    /\ shadow = <<>>
    /\ reply = NoReply
    /\ tally = NoTally
    /\ \E mongodb_uri \in Uris : conn = [NoConn EXCEPT !.env = mongodb_uri]
    /\ \E app \in {"cli", "web"} : ui = [NoUi EXCEPT !.app = app, !.page = "start"]

\* main.py line 192, app_web.py line 127: the call of get_database_connection
Connect(o) ==
    /\ ui.page = "start"
    /\ conn' = Connection(conn.env, TRUE, o, get_database_connection(conn.env, o))
    /\ ui' = [ui EXCEPT !.page = "connected"]
    /\ UNCHANGED <<DDGS_AVAILABLE, db, folder, now, disk, ledger, pc, call, ret, ncalls, used,
                   writes, shadow, reply, tally>>

\* main.py lines 194-202: the warning, db = None, and the first menu
CliEnterMenu ==
    /\ ui.app = "cli" /\ ui.page = "connected"
    /\ db' = IF conn.error # None THEN None ELSE conn.db
    /\ ui' = [ui EXCEPT !.page = "menu", !.failed = conn.error # None]
    /\ conn' = NoConn
    /\ UNCHANGED <<DDGS_AVAILABLE, folder, now, disk, ledger, pc, call, ret, ncalls, used,
                   writes, shadow, reply, tally>>

\* app_web.py lines 128-137, 157-161 and 200-215: the rest of get_db, the
\* count boxes of the sidebar and the home page
WebEnterHome(fails) ==
    /\ ui.app = "web" /\ ui.page = "connected"
    /\ LET g == get_db(ui.session, conn)
       IN  /\ db' = g.db
           /\ ui' = [ui EXCEPT !.page = "home", !.session = g.session,
                               !.failed = conn.error # None]
           /\ reply' = MenuReply("get_image_count", view_statistics_menu(g.db, ledger, fails),
                                 fails, reply)
    /\ UNCHANGED <<DDGS_AVAILABLE, folder, now, disk, ledger, pc, call, ret, ncalls, used,
                   writes, shadow, tally, conn>>

\* main.py lines 202-203: print_menu and the line read by input(); a choice
\* that starts an acquisition is taken while the run has calls left
CliPrompt(choice) ==
    /\ ui.app = "cli" /\ ui.page = "menu"
    /\ CliRoute(choice) \in {"search", "generate"} => ncalls < MaxCalls
    /\ ui' = [ui EXCEPT !.page = "chosen", !.choice = choice]
    /\ UNCHANGED <<DDGS_AVAILABLE, db, folder, now, disk, ledger, pc, call, ret, ncalls, used,
                   writes, shadow, reply, tally, conn>>

\* main.py, choice 1: search_images_menu up to the call of line 77
CliSearchMenu(query_in, count_in) ==
    /\ ui.app = "cli" /\ ui.page = "chosen" /\ CliRoute(ui.choice) = "search"
    /\ LET m == search_images_menu(query_in, count_in)
       IN  ui' = IF m.called
                 THEN [ui EXCEPT !.page = "call", !.passed = m,
                                 !.typed = [NoTyped EXCEPT !.query = query_in,
                                                           !.count = count_in]]
                 ELSE [ui EXCEPT !.page = "menu"]
    /\ UNCHANGED <<DDGS_AVAILABLE, db, folder, now, disk, ledger, pc, call, ret, ncalls, used,
                   writes, shadow, reply, tally, conn>>

\* main.py line 77: scrape_and_download(query, count, db)
CliSearchCall(prim, bfails) ==
    /\ ui.page = "call" /\ ui.passed.fn = "scrape_and_download"
    /\ ScrapeStart(ui.passed.arg, ui.passed.count, prim, bfails)
    /\ ui' = [ui EXCEPT !.page = "running"]
    /\ UNCHANGED <<reply, tally, conn>>

\* main.py, choice 2: ai_generator_menu up to the call of line 118 or 120
CliGenMenu(prompt_in, multi_in, count_in) ==
    /\ ui.app = "cli" /\ ui.page = "chosen" /\ CliRoute(ui.choice) = "generate"
    /\ LET m == ai_generator_menu(prompt_in, multi_in, count_in)
       IN  ui' = IF m.called
                 THEN [ui EXCEPT !.page = "call", !.passed = m,
                                 !.typed = [query |-> prompt_in, multi |-> multi_in,
                                            count |-> IF m.fn = "generate_multiple_images"
                                                      THEN count_in ELSE <<>>]]
                 ELSE [ui EXCEPT !.page = "menu"]
    /\ UNCHANGED <<DDGS_AVAILABLE, db, folder, now, disk, ledger, pc, call, ret, ncalls, used,
                   writes, shadow, reply, tally, conn>>

\* main.py line 118: generate_multiple_images(prompt, count, db)
CliGenMultiCall ==
    /\ ui.page = "call" /\ ui.passed.fn = "generate_multiple_images"
    /\ GenStart(ui.passed.arg, ui.passed.count)
    /\ ui' = [ui EXCEPT !.page = "running"]
    /\ UNCHANGED <<reply, tally, conn>>

\* main.py line 120: generate_ai_image(prompt, db)
CliGenOneCall(o, insert_ok) ==
    /\ ui.page = "call" /\ ui.passed.fn = "generate_ai_image"
    /\ GenerateOne(ui.passed.arg, o, insert_ok)
    /\ ui' = [ui EXCEPT !.page = "running"]
    /\ UNCHANGED <<reply, tally, conn>>

\* main.py lines 79-82 and 122: the call returned, Enter, back to the menu
CliReturn ==
    /\ ui.app = "cli" /\ ui.page = "running" /\ pc = "idle"
    /\ ui' = [ui EXCEPT !.page = "menu", !.typed = NoTyped, !.passed = NoPassed]
    /\ UNCHANGED <<DDGS_AVAILABLE, db, folder, now, disk, ledger, pc, call, ret, ncalls, used,
                   writes, shadow, reply, tally, conn>>

\* main.py, choice 3: view_statistics_menu
CliStatistics(fails) ==
    /\ ui.app = "cli" /\ ui.page = "chosen" /\ CliRoute(ui.choice) = "statistics"
    /\ reply' = MenuReply("get_image_count", view_statistics_menu(db, ledger, fails),
                          fails, reply)
    /\ ui' = [ui EXCEPT !.page = "menu"]
    /\ UNCHANGED <<DDGS_AVAILABLE, db, folder, now, disk, ledger, pc, call, ret, ncalls, used,
                   writes, shadow, tally, conn>>

\* main.py, choice 4: view_history_menu
CliHistory(fails) ==
    /\ ui.app = "cli" /\ ui.page = "chosen" /\ CliRoute(ui.choice) = "history"
    /\ reply' = MenuReply("get_search_history", view_history_menu(db, ledger, fails),
                          fails, reply)
    /\ ui' = [ui EXCEPT !.page = "menu"]
    /\ UNCHANGED <<DDGS_AVAILABLE, db, folder, now, disk, ledger, pc, call, ret, ncalls, used,
                   writes, shadow, tally, conn>>

\* main.py, choice 5: sys.exit(0)
CliExit ==
    /\ ui.app = "cli" /\ ui.page = "chosen" /\ CliRoute(ui.choice) = "exit"
    /\ ui' = [ui EXCEPT !.page = "exited"]
    /\ UNCHANGED <<DDGS_AVAILABLE, db, folder, now, disk, ledger, pc, call, ret, ncalls, used,
                   writes, shadow, reply, tally, conn>>

\* main.py lines 231-232: any other choice prints a message and the loop goes
\* on to the next print_menu
CliInvalid ==
    /\ ui.app = "cli" /\ ui.page = "chosen" /\ CliRoute(ui.choice) = "invalid"
    /\ ui' = [ui EXCEPT !.page = "menu"]
    /\ UNCHANGED <<DDGS_AVAILABLE, db, folder, now, disk, ledger, pc, call, ret, ncalls, used,
                   writes, shadow, reply, tally, conn>>

WebPages == {nav_options(label) : label \in NavLabels}

\* app_web.py line 157 in a rerun of the script: db = get_db(), with o the answer
\* get_database_connection gets if get_db calls it
WebRerun(o) ==
    LET r == get_database_connection(conn.env, o)
        g == get_db(ui.session, r)
    IN  [session |-> g.session, db |-> g.db,
         conn |-> IF g.called THEN Reconnected(conn, o, r) ELSE conn]

\* app_web.py lines 157, 192-210: the radio selects another page, the script
\* is rerun: get_db, then the count boxes of the sidebar
WebNavigate(label, o, fails) ==
    /\ ui.app = "web" /\ ui.page \in WebPages /\ pc = "idle"
    /\ nav_options(label) # ui.page
    /\ ui' = [ui EXCEPT !.page = nav_options(label), !.session = WebRerun(o).session]
    /\ db' = WebRerun(o).db
    /\ conn' = WebRerun(o).conn
    /\ reply' = MenuReply("get_image_count", view_statistics_menu(db', ledger, fails),
                          fails, reply)
    /\ UNCHANGED <<DDGS_AVAILABLE, folder, now, disk, ledger, pc, call, ret, ncalls, used,
                   writes, shadow, tally>>

\* app_web.py, show_search lines 324-331: the button, with q and n entered
WebSearch(q, n, prim, bfails, o, fails) ==
    /\ ui.app = "web" /\ ui.page = "search" /\ WebRoute(ui.page) = "search"
    /\ q # <<>>
    /\ ui' = [ui EXCEPT !.session = WebRerun(o).session]
    /\ db' = WebRerun(o).db
    /\ conn' = WebRerun(o).conn
    /\ reply' = MenuReply("get_image_count", view_statistics_menu(db', ledger, fails),
                          fails, reply)
    /\ ScrapeStart(q, n, prim, bfails)
    /\ UNCHANGED tally

\* app_web.py, show_generator lines 350-355
WebGenerate(p, o, insert_ok, co, fails) ==
    /\ ui.app = "web" /\ ui.page = "generate" /\ WebRoute(ui.page) = "generate"
    /\ p # <<>>
    /\ ui' = [ui EXCEPT !.session = WebRerun(co).session]
    /\ db' = WebRerun(co).db
    /\ conn' = WebRerun(co).conn
    /\ reply' = MenuReply("get_image_count", view_statistics_menu(db', ledger, fails),
                          fails, reply)
    /\ GenerateOne(p, o, insert_ok)
    /\ UNCHANGED tally

\* the answers of the environment to the applications
ConnChoices == IF NotConfigured(conn.env) THEN {"ok"} ELSE ConnAnswers
AppPrimaryChoices ==
    IF DDGS_AVAILABLE
    THEN {[raises |-> TRUE, results |-> <<>>], [raises |-> FALSE, results |-> <<TRUE>>]}
    ELSE {NotCalled}
AppDownloadAnswers == {o \in DownloadAnswers : o.kind = "timeout" \/ o.ctype = "image/jpeg"}
AppGenAnswers == {o \in GenAnswers : o.kind = "error" \/ (o.took = 0 /\ o.size > MinBytes)}
ReadChoices == IF db # None THEN BOOLEAN ELSE {FALSE}

AppNext ==
    \/ \E o \in ConnChoices : Connect(o)
    \/ CliEnterMenu
    \/ \E fails \in BOOLEAN : WebEnterHome(fails)
    \/ \E choice \in CliChoices : CliPrompt(choice)
    \/ \E query_in \in TypedQueries, count_in \in TypedCounts :
          CliSearchMenu(query_in, count_in)
    \/ \E prim \in AppPrimaryChoices : CliSearchCall(prim, FALSE)
    \/ \E prompt_in \in TypedQueries, multi_in \in TypedMulti, count_in \in TypedCounts :
          CliGenMenu(prompt_in, multi_in, count_in)
    \/ CliGenMultiCall
    \/ \E o \in AppGenAnswers, insert_ok \in InsertChoices : CliGenOneCall(o, insert_ok)
    \/ CliReturn
    \/ \E fails \in ReadChoices : CliStatistics(fails)
    \/ \E fails \in ReadChoices : CliHistory(fails)
    \/ CliExit
    \/ CliInvalid
    \/ \E label \in NavLabels, o \in ConnChoices, fails \in ReadChoices :
          WebNavigate(label, o, fails)
    \/ \E q \in WebQueries, n \in WebCounts, prim \in AppPrimaryChoices, o \in ConnChoices,
          fails \in ReadChoices : WebSearch(q, n, prim, FALSE, o, fails)
    \/ \E p \in WebQueries, o \in AppGenAnswers, insert_ok \in InsertChoices,
          co \in ConnChoices, fails \in ReadChoices : WebGenerate(p, o, insert_ok, co, fails)
    \/ /\ \E o \in AppDownloadAnswers, insert_ok \in InsertChoices : ScrapeItem(o, insert_ok)
       /\ UNCHANGED clientvars
    \/ ScrapeReturn /\ UNCHANGED clientvars
    \/ /\ \E o \in AppGenAnswers, insert_ok \in InsertChoices : GenItem(o, insert_ok)
       /\ UNCHANGED clientvars
    \/ GenReturn /\ UNCHANGED clientvars

AppSpec == AppInit /\ [][AppNext]_vars

----------------------------------------------------------------------------
(* Properties *)

Batches == {"scrape_and_download", "generate_multiple_images"}

\* the environment materialized the item: the whole body arrived and it is
\* larger than the minimum size
Materialized(a) == a.answer.kind = "ok" /\ a.answer.size > MinBytes

\* C1: a batch called with count = K returns a list of at most K results,
\* whatever list of URLs the primary search provider hands back.
C1_AtMostCount ==
    (pc = "idle" /\ ret.fn \in Batches /\ ~ret.raised) => Len(ret.result) <= ret.count

\* C2: every path returned as a success names a file that exists with more than
\* MinBytes bytes at the moment it is returned, both by the single-item
\* functions (the attempt that just returned) and by the batch functions.
C2_ReturnedFileValid ==
    /\ pc = "idle" =>
          \A k \in 1..Len(ret.result) :
              Exists(disk, ret.result[k]) /\ disk[ret.result[k]] > MinBytes
    /\ (pc # "idle" /\ call.attempts # <<>> /\ Last(call.attempts).success) =>
          /\ Exists(disk, Last(call.attempts).filepath)
          /\ disk[Last(call.attempts).filepath] > MinBytes

\* the provider calls of the search of frame f, against what the primary did
SearchOf(f) ==
    LET primaryGood == f.primary.did = "answered" /\ f.primary.found # <<>>
    IN  /\ primaryGood => (f.trace = <<"primary">> /\ f.urls = f.primary.found)
        /\ ~primaryGood => (f.trace # <<>> /\ Last(f.trace) = "backup")
        /\ f.primary.did = "unavailable" => f.trace = <<"backup">>

\* C3: in search_images the fallback provider is called before the function
\* returns whenever the primary provider is unavailable, raises or yields no
\* usable URL; when the primary yields at least one URL the fallback is not
\* called and the primary's URLs are what is returned.
C3_FallbackInvoked ==
    /\ call.fn = "scrape_and_download" => SearchOf(call)
    /\ ret.fn = "scrape_and_download" => SearchOf(ret)

\* C3 witness: the primary provider answered without any usable URL and the
\* batch is downloading the URLs of the fallback provider.
C3_Witness ==
    /\ pc = "scrape"
    /\ call.primary.did = "answered" /\ call.primary.found = <<>>
    /\ call.trace = <<"primary", "backup">>
    /\ call.urls # <<>> /\ call.urls[1].provider = "unsplash"

\* C4: two fetches with an identical query or prompt never write the same
\* output file name in one run, so no earlier output file is overwritten; the
\* variations of one generate_multiple_images call are fetches of one prompt.
C4_NoFilenameCollision ==
    \A i, j \in 1..Len(writes) :
        (i < j /\ writes[i].arg = writes[j].arg) => writes[i].path # writes[j].path

\* C5: the list a function returns is the list the same call returns with
\* db = None on the same provider and download answers, whether or not the
\* ledger inserts succeed.
C5_PersistenceIsSideChannel ==
    /\ pc = "idle" => (~ret.raised /\ ret.result = shadow)
    /\ pc # "idle" => call.out = shadow

\* C5 witness: a call made with a database handle has returned a path whose
\* ledger insert failed.
C5_Witness ==
    /\ pc = "idle" /\ db = DB /\ ret.result # <<>>
    /\ \E k \in 1..Len(ret.attempts) :
          ret.attempts[k].saved = "failed" /\ ret.attempts[k].success

NumMaterialized(attempts) ==
    Cardinality({k \in 1..Len(attempts) : Materialized(attempts[k])})

\* C6: a search batch whose M URLs contain S materializable items returns
\* exactly S paths and, with a database whose inserts succeed, adds exactly S
\* records of type scraped to the ledger, the k-th for the k-th returned path.
C6_PartialBatch ==
    (pc = "idle" /\ ret.fn = "scrape_and_download" /\ ~ret.raised) =>
        LET S == NumMaterialized(ret.attempts)
        IN  /\ Len(ret.result) = S
            /\ (db # None /\ \A k \in 1..Len(ret.attempts) : ret.attempts[k].saved # "failed")
                  => /\ Len(ledger) = ret.ledger0 + S
                     /\ \A k \in 1..S :
                           /\ ledger[ret.ledger0 + k].type = "scraped"
                           /\ ledger[ret.ledger0 + k].filename = ret.result[k]
                           /\ ledger[ret.ledger0 + k].query = ret.arg

\* C6 witness: a batch of two URLs, one materialized and one failed, returned
\* one path and the ledger gained one record.
C6_Witness ==
    /\ pc = "idle" /\ ret.fn = "scrape_and_download" /\ db = DB
    /\ Len(ret.urls) = 2 /\ NumMaterialized(ret.attempts) = 1
    /\ Len(ret.result) = 1 /\ Len(ledger) = ret.ledger0 + 1

\* C7: a single generation whose provider answers with a body of at most
\* MinBytes bytes returns None, leaves no file of that attempt on disk and
\* writes no ledger record.
C7_SmallBodyRejected ==
    (/\ pc = "idle" /\ ret.fn = "generate_ai_image"
     /\ ret.attempts[1].answer.kind = "ok" /\ ret.attempts[1].answer.size <= MinBytes) =>
        /\ ret.result = <<>>
        /\ ~Exists(disk, ret.attempts[1].wrote)
        /\ Len(ledger) = ret.ledger0

\* C8: a batch attempts every item whatever happened to the earlier ones, and
\* no item failure leaves the batch function as an exception: a returned
\* scrape batch has attempted each URL of the search in order, a returned
\* generation batch each of the count variations.
C8_BatchNeverAborts ==
    (pc = "idle" /\ ret.fn \in Batches) =>
        /\ ~ret.raised
        /\ ret.fn = "scrape_and_download" =>
              /\ Len(ret.attempts) = Len(ret.urls)
              /\ \A k \in 1..Len(ret.urls) :
                    ret.attempts[k].item = k /\ ret.attempts[k].url = ret.urls[k]
        /\ ret.fn = "generate_multiple_images" =>
              /\ Len(ret.attempts) = ret.count
              /\ \A k \in 1..ret.count : ret.attempts[k].item = k

\* C8 witness: a returned scrape batch whose first item failed and whose
\* second item was materialized.
C8_Witness ==
    /\ pc = "idle" /\ ret.fn = "scrape_and_download" /\ Len(ret.attempts) = 2
    /\ ret.attempts[1].answer.kind \in {"timeout", "error", "partial"}
    /\ Materialized(ret.attempts[2])

\* every provider of the chain was consulted without yielding an item
Exhausted(f) ==
    /\ ~(f.primary.did = "answered" /\ f.primary.found # <<>>)
    /\ (f.bfailed \/ f.count <= 0)

\* C9: when every provider is exhausted scrape_and_download returns an empty
\* list without raising, attempts no download and writes no ledger record.
C9_ExhaustedReturnsEmpty ==
    /\ (pc = "idle" /\ ret.fn = "scrape_and_download" /\ Exhausted(ret)) =>
          /\ ~ret.raised /\ ret.result = <<>> /\ ret.attempts = <<>>
          /\ Len(ledger) = ret.ledger0
    /\ pc = "scrape" => ~Exhausted(call)

\* C9 witness: the primary provider raised, the fallback failed too, and the
\* batch has returned.
C9_Witness ==
    /\ pc = "idle" /\ ret.fn = "scrape_and_download"
    /\ ret.primary.did = "raised" /\ ret.bfailed /\ ret.count > 0

RECURSIVE SuccessPaths(_)
SuccessPaths(attempts) ==
    IF attempts = <<>> THEN <<>>
    ELSE (IF Head(attempts).success THEN <<Head(attempts).filepath>> ELSE <<>>)
         \o SuccessPaths(Tail(attempts))

\* C10: the list a batch returns holds the paths of its successful items in
\* the order in which they were attempted, failed items omitted, and no path
\* twice.
C10_OrderPreserved ==
    (pc = "idle" /\ ret.fn \in Batches /\ ~ret.raised) =>
        /\ ret.result = SuccessPaths(ret.attempts)
        /\ \A i, j \in 1..Len(ret.result) : i # j => ret.result[i] # ret.result[j]

\* the item attempts of frame f whose ledger insert failed were successes
\* all the same: the save returned False, the file is on disk, the path is in
\* the list out
InsertFailureHarmless(f, out) ==
    \A k \in 1..Len(f.attempts) :
        f.attempts[k].saved = "failed" =>
            /\ f.attempts[k].success
            /\ f.attempts[k].filepath = f.attempts[k].wrote
            /\ Exists(disk, f.attempts[k].filepath)
            /\ InSeq(f.attempts[k].filepath, out)

\* C11: when the insert of save_scraped_image or save_ai_generated_image
\* fails, the save returns False without raising, the written file stays on
\* disk, its path is still returned, and the remaining items of the batch are
\* still processed.
C11_LedgerFailureHarmless ==
    /\ pc # "idle" => InsertFailureHarmless(call, call.out)
    /\ pc = "idle" =>
          /\ InsertFailureHarmless(ret, ret.result)
          /\ (\E k \in 1..Len(ret.attempts) : ret.attempts[k].saved = "failed") =>
                /\ ~ret.raised
                /\ ret.fn = "scrape_and_download" => Len(ret.attempts) = Len(ret.urls)
                /\ ret.fn = "generate_multiple_images" => Len(ret.attempts) = ret.count

\* C11 witness: a generation batch of two variations has returned; the insert
\* of the first failed, its path is in the returned list and the second
\* variation was generated and recorded.
C11_Witness ==
    /\ pc = "idle" /\ ret.fn = "generate_multiple_images" /\ Len(ret.attempts) = 2
    /\ ret.attempts[1].saved = "failed" /\ InSeq(ret.attempts[1].filepath, ret.result)
    /\ ret.attempts[2].saved = "ok"

NumSuccess(attempts) == Cardinality({k \in 1..Len(attempts) : attempts[k].success})

\* the calls of generate_ai_image made so far by the generate_multiple_images
\* frame f: the k-th call is for variation k, its request text is the prompt
\* followed by a suffix that carries k, and no two request texts are equal,
\* neither as given nor as encoded into the request URL
VariationCalls(f) ==
    /\ Len(f.attempts) <= f.count \/ f.attempts = <<>>
    /\ \A k \in 1..Len(f.attempts) :
          LET request == f.attempts[k].request
          IN  /\ f.attempts[k].item = k
              /\ Len(request) > Len(f.arg)
              /\ SubSeq(request, 1, Len(f.arg)) = f.arg
              /\ Contains(SubSeq(request, Len(f.arg) + 1, Len(request)), str(k))
    /\ \A i, j \in 1..Len(f.attempts) :
          i # j => /\ f.attempts[i].request # f.attempts[j].request
                   /\ quote_plus(f.attempts[i].request) # quote_plus(f.attempts[j].request)

\* C15: generate_multiple_images(prompt, N) calls generate_ai_image exactly N
\* times, once per k = 1..N in increasing order, each with the prompt followed
\* by a variation suffix carrying k, so that the N request texts are pairwise
\* distinct; the list it returns has one path per successful call.
C15_OneCallPerVariation ==
    /\ pc = "genmulti" => VariationCalls(call)
    /\ (pc = "idle" /\ ret.fn = "generate_multiple_images") =>
          /\ VariationCalls(ret)
          /\ ret.count >= 0 => Len(ret.attempts) = ret.count
          /\ Len(ret.result) = NumSuccess(ret.attempts)
          /\ Len(ret.result) <= Len(ret.attempts)

\* C15 witness: a batch of two variations has returned, one generated and one
\* failed.
C15_Witness ==
    /\ pc = "idle" /\ ret.fn = "generate_multiple_images" /\ ret.count = 2
    /\ Len(ret.attempts) = 2 /\ NumSuccess(ret.attempts) = 1 /\ Len(ret.result) = 1

\* no provider appears twice in the trace of a search, no URL twice among the
\* item attempts of frame f, and the attempts go through the list positions
\* 1, 2, ... once each
RequestedOnce(f) ==
    /\ \A i, j \in 1..Len(f.trace) : i # j => f.trace[i] # f.trace[j]
    /\ Len(f.attempts) <= Len(f.urls)
    /\ \A k \in 1..Len(f.attempts) :
          f.attempts[k].item = k /\ f.attempts[k].url = f.urls[k]
    /\ \A i, j \in 1..Len(f.attempts) : i # j => f.attempts[i].url # f.attempts[j].url

\* C18: there are no retries: within one scrape_and_download batch each URL
\* of the search is requested at most once, failed or not; one
\* generate_ai_image call makes at most one request to the generation
\* endpoint; one search_images call calls the primary provider and the
\* fallback provider at most once each.
C18_NoRetries ==
    /\ pc = "scrape" => RequestedOnce(call)
    /\ (pc = "idle" /\ ret.fn = "scrape_and_download") => RequestedOnce(ret)
    /\ (pc = "idle" /\ ret.fn = "generate_ai_image") => Len(ret.attempts) = 1

\* C18 witness: the primary provider raised, the fallback gave two URLs, the
\* download of the first timed out and the batch went on to the second URL and
\* returned.
C18_Witness ==
    /\ pc = "idle" /\ ret.fn = "scrape_and_download"
    /\ ret.trace = <<"primary", "backup">> /\ ret.primary.did = "raised"
    /\ Len(ret.attempts) = 2 /\ ret.attempts[1].answer.kind = "timeout"
    /\ ret.attempts[2].url # ret.attempts[1].url

\* the search of frame f ended in the fallback provider
ReachedBackup(f) == f.fn = "scrape_and_download" /\ f.trace # <<>> /\ Last(f.trace) = "backup"

\* the fallback gave one URL per requested count, the i-th with random = i - 1
OnePerCount(f) ==
    /\ Len(f.urls) = f.count
    /\ \A k \in 1..Len(f.urls) :
          /\ f.urls[k].provider = "unsplash"
          /\ f.urls[k].keyword = quote_plus(f.arg)
          /\ f.urls[k].n = k - 1
    /\ \A i, j \in 1..Len(f.urls) : i # j => f.urls[i] # f.urls[j]

\* C20: search_images_backup(query, n) returns exactly n URLs, pairwise
\* distinct through the random parameter, so with n >= 1 a search that
\* reaches the fallback never comes back empty ('no images found').
C20_BackupExactlyN ==
    /\ (pc = "scrape" /\ ReachedBackup(call) /\ call.count >= 1) => OnePerCount(call)
    /\ (pc = "idle" /\ ReachedBackup(ret) /\ ret.count >= 1) =>
          (OnePerCount(ret) /\ ret.urls # <<>>)

\* C20 as amended: unless something raises inside search_images_backup (then
\* it returns [] and the search reports that no images were found), it
\* returns exactly n URLs for n >= 1, pairwise distinct through the random
\* parameter, and no URL for n <= 0.
C20_BackupExactlyNUnlessFailed ==
    /\ (pc = "scrape" /\ ReachedBackup(call)) =>
          (~call.bfailed /\ call.count >= 1 /\ OnePerCount(call))
    /\ (pc = "idle" /\ ReachedBackup(ret)) =>
          /\ (~ret.bfailed /\ ret.count >= 1) => (OnePerCount(ret) /\ ret.urls # <<>>)
          /\ (ret.bfailed \/ ret.count <= 0) => ret.urls = <<>>

\* C20 witness: the primary provider's answer carried no usable URL, the
\* fallback was asked for two URLs and the batch is downloading them.
C20_Witness ==
    /\ pc = "scrape" /\ ReachedBackup(call) /\ call.count = 2 /\ Len(call.urls) = 2
    /\ call.primary.did = "answered"
    /\ call.urls[1].n = 0 /\ call.urls[2].n = 1

ReadOps == {"get_all_images", "get_search_history", "get_image_count"}

\* C12: the ledger is append-only: a step of the functions of database.py
\* or of the acquisition functions leaves every record inserted before it in
\* place and unchanged and adds at most one record after them; a read
\* operation adds none.
C12_AppendOnly ==
    [][/\ Len(ledger') >= Len(ledger)
       /\ SubSeq(ledger', 1, Len(ledger)) = ledger
       /\ Len(ledger') <= Len(ledger) + 1
       /\ (reply' # reply /\ reply'.op \in ReadOps) => ledger' = ledger]_vars

\* C12 witness: the ledger holds a record inserted by a direct save and one
\* inserted by an acquisition function, and get_all_images has read them both.
C12_Witness ==
    /\ Len(ledger) = 2 /\ tally.calls = 1 /\ ret.fn # "" /\ ret.ledger0 = 1
    /\ reply.op = "get_all_images" /\ reply.image_type = NoType /\ Len(reply.docs) = 2

Range(q) == {q[k] : k \in 1..Len(q)}

NoDuplicates(q) == \A i, j \in 1..Len(q) : i # j => q[i] # q[j]

\* the record stored by the save that returned last carries the type of the
\* function that stored it and the other fields of the caller's dictionary
Stamped ==
    (reply.op \in {"save_scraped_image", "save_ai_generated_image"} /\ reply.ok) =>
        /\ ledger # <<>>
        /\ Last(ledger).type =
              (IF reply.op = "save_scraped_image" THEN "scraped" ELSE "ai_generated")
        /\ Last(ledger).query = reply.doc.query
        /\ Last(ledger).filename = reply.doc.filename

\* C17: on a ledger that started empty, get_image_count returns the number
\* of successful scraped saves, the number of successful AI saves and their
\* sum; get_search_history returns each query of a scraped record once and
\* nothing else; a save stamps the type of its function over the caller's.
C17_ReadPath ==
    /\ reply.op = "get_image_count" =>
          /\ reply.counts.scraped = tally.scraped
          /\ reply.counts.ai_generated = tally.ai_generated
          /\ reply.counts.total = tally.scraped + tally.ai_generated
    /\ reply.op = "get_search_history" =>
          (Range(reply.queries) = tally.queries /\ NoDuplicates(reply.queries))
    /\ Stamped

\* C17 as amended: the same, for the reads whose query does not raise; a
\* read whose query raises returns zero counts, respectively an empty list.
C17_ReadPathUnlessFailed ==
    /\ (reply.op = "get_image_count" /\ ~reply.raised) =>
          /\ reply.counts.scraped = tally.scraped
          /\ reply.counts.ai_generated = tally.ai_generated
          /\ reply.counts.total = tally.scraped + tally.ai_generated
    /\ (reply.op = "get_search_history" /\ ~reply.raised) =>
          (Range(reply.queries) = tally.queries /\ NoDuplicates(reply.queries))
    /\ (reply.op = "get_image_count" /\ reply.raised) => reply.counts = NoCounts
    /\ (reply.op = "get_search_history" /\ reply.raised) => reply.queries = <<>>
    /\ Stamped

\* C17 witness: after a scraped save and an AI save whose dictionary carried
\* the type and a query of a scraped record, get_search_history has returned
\* the one scraped query.
C17_Witness ==
    /\ reply.op = "get_search_history" /\ ~reply.raised /\ Len(reply.queries) = 1
    /\ tally.scraped = 1 /\ tally.ai_generated = 1
    /\ \E k \in 1..Len(ledger) : ledger[k].type = "ai_generated" /\ ledger[k].query # <<>>

\* C13: get_database_connection treats an absent, empty or placeholder
\* (containing 'username:password') MONGODB_URI as not configured: it returns
\* (None, message) without creating a client or contacting the server; on
\* every path it returns without raising a pair of which exactly one of db
\* and error is None.
C13_ConnectionPair ==
    conn.called =>
        /\ ~conn.raised
        /\ (conn.db = None) # (conn.error = None)
        /\ conn.pinged => conn.client
        /\ (~conn.env.set \/ conn.env.value = <<>> \/ Contains(conn.env.value, UserPass)) =>
              (conn.db = None /\ conn.error # None /\ ~conn.client /\ ~conn.pinged)

\* C13 witness: get_database_connection was called with the placeholder URI of
\* the .env template and returned (None, message).
C13_Witness ==
    /\ conn.called /\ conn.env.set /\ Contains(conn.env.value, UserPass)
    /\ conn.db = None /\ conn.error # None

\* the saves made by the item attempts of frame f
NoInsert(f) == \A k \in 1..Len(f.attempts) : f.attempts[k].saved = "none"

\* a returned batch went through all of its items
RanToCompletion(f) ==
    /\ ~f.raised
    /\ f.fn = "scrape_and_download" => Len(f.attempts) = Len(f.urls)
    /\ f.fn = "generate_multiple_images" => Len(f.attempts) = f.count
    /\ f.fn = "generate_ai_image" => Len(f.attempts) = 1

\* C14: after a failed connection at startup db is None for the rest of the
\* run of main.py and of the web session; searches and generations started
\* in that mode run to completion, and no insert, count or history query
\* is made on the ledger.
C14_NoPersistenceMode ==
    /\ ui.failed => db = None
    /\ (ui.page = "connected" /\ conn.db = None) => conn.error # None
    /\ (ui.page \notin {"start", "connected"} /\ db = None) =>
          /\ ui.failed
          /\ reply = NoReply
          /\ ledger = <<>>
          /\ NoInsert(call) /\ NoInsert(ret)
          /\ (pc = "idle" /\ ret.fn # "") => RanToCompletion(ret)

\* C14 witness: main.py could not connect, and a search started from its
\* menu has downloaded an image and returned to the menu.
C14_Witness ==
    /\ ui.app = "cli" /\ ui.failed /\ db = None /\ ui.page = "menu"
    /\ ret.fn = "scrape_and_download" /\ ret.result # <<>>

FourOperations == {"search", "generate", "remove-background", "list"}
AcquisitionOperations == {"search", "generate"}
CliOffers == {CliRoute(choice) : choice \in CliChoices} \ {"exit", "invalid"}
WebOffers == {WebRoute(nav_options(label)) : label \in NavLabels} \ {"home"}

\* C16: the menu of main.py and the navigation of app_web.py both offer
\* search, generate, remove-background and list, and the acquisition
\* operations of the two are the same.
C16_SameOperations ==
    /\ ui.page = "menu" => FourOperations \subseteq CliOffers
    /\ ui.page \in WebPages => FourOperations \subseteq WebOffers
    /\ ui.page \in WebPages \cup {"menu"} =>
          CliOffers \cap AcquisitionOperations = WebOffers \cap AcquisitionOperations

NonNumeric(s) == \E k \in 1..Len(s) : s[k] \notin Digits \cup {"+", "-"}

\* the count of the call made for the typed text: in 1..most, and the default
\* for an empty or non-numeric text
CountInRange(p, typed_count, default, most) ==
    /\ p.count \in 1..most
    /\ (strip(typed_count) = <<>> \/ NonNumeric(strip(typed_count))) => p.count = default

\* C19: search_images_menu passes a count in 1..20 to scrape_and_download
\* and ai_generator_menu a count in 1..5 to generate_multiple_images,
\* whatever text was typed, the default (5 resp. 3) for an empty or
\* non-numeric text; neither makes a call for an empty query or prompt.
C19_CountInRange ==
    (ui.app = "cli" /\ ui.page \in {"call", "running"}) =>
        /\ ui.passed.called
        /\ ui.passed.arg # <<>> /\ ui.passed.arg = strip(ui.typed.query)
        /\ ui.passed.fn = "scrape_and_download" =>
              CountInRange(ui.passed, ui.typed.count, 5, 20)
        /\ ui.passed.fn = "generate_multiple_images" =>
              CountInRange(ui.passed, ui.typed.count, 3, 5)
        /\ ui.page = "running" =>
              LET f == IF pc = "idle" THEN ret ELSE call
              IN  f.fn = ui.passed.fn /\ f.arg = ui.passed.arg /\ f.count = ui.passed.count

\* C19 witness: the user asked for variations and typed a text that is not a
\* number; generate_multiple_images is about to be called with count 3.
C19_Witness ==
    /\ ui.app = "cli" /\ ui.page = "call" /\ ui.passed.fn = "generate_multiple_images"
    /\ ui.typed.count = <<"x">> /\ ui.passed.count = 3

\* C21: after scrape_and_download returns, every file the batch created in the
\* download folder is named in the returned list: a download that was rejected
\* (body of 1000 bytes or less) or that broke while the body was being written
\* left no file at its target path.
C21_NoFileLeftBehind ==
    (pc = "idle" /\ ret.fn = "scrape_and_download") =>
        \A k \in 1..Len(ret.attempts) :
            LET a == ret.attempts[k]
            IN  (a.wrote # NoPath /\ Exists(disk, a.wrote)) => InSeq(a.wrote, ret.result)

\* C22: in the web application the connection outcome is decided once per
\* session: over all reruns get_database_connection is called at most once (a
\* failed first attempt is not retried), db_ok and the stored handle do not
\* change once they are set, and get_db returns a handle exactly when db_ok is
\* true.
DecidedOnce ==
    ui.app = "web" =>
        /\ conn'.calls <= 1
        /\ ui.session.set => ui'.session = ui.session
        /\ ui'.session.set => (db' # None <=> ui'.session.db_ok)
C22_DecidedOnce == [][DecidedOnce]_vars

\* C22 witness: the first attempt of a configured session failed, and after the
\* reruns of a navigation and of a generation there is still one call and no
\* handle.
C22_Witness ==
    /\ ui.app = "web" /\ ui.page = "generate" /\ ret.fn = "generate_ai_image"
    /\ ~NotConfigured(conn.env) /\ conn.answer = "ConnectionFailure"
    /\ conn.calls = 1 /\ ui.session.set /\ ~ui.session.db_ok /\ db = None

\* C23: the main loop of the command line leaves the menu only through choice
\* 5: a completed operation 1-4 returns to the menu, any other choice invokes no
\* operation and changes nothing but the prompt, and the handle chosen at
\* startup (None after a warning) stays the one the operations are called with.
Recognized == {<<"1">>, <<"2">>, <<"3">>, <<"4">>, <<"5">>}
MainLoop ==
    (ui.app = "cli" /\ ui.page \in {"menu", "chosen", "call", "running"}) =>
        /\ db = (IF ui.failed THEN None ELSE DB)
        /\ db' = db
        /\ ui'.page = "exited" <=> (ui.page = "chosen" /\ strip(ui.choice) = <<"5">>)
        /\ (ui.page = "chosen" /\ strip(ui.choice) \in {<<"3">>, <<"4">>}) => ui'.page = "menu"
        /\ (ui.page = "running" /\ pc = "idle") => ui'.page = "menu"
        /\ (ui.page = "chosen" /\ strip(ui.choice) \notin Recognized) =>
              /\ ui' = [ui EXCEPT !.page = "menu"]
              /\ UNCHANGED <<DDGS_AVAILABLE, db, folder, now, disk, ledger, pc, call, ret,
                             ncalls, used, writes, shadow, reply, tally, conn>>
C23_MainLoop == [][MainLoop]_vars

\* C23 witness: with a handle from startup, a search saved a record and returned
\* to the menu, then the choice 6 was typed and the menu is shown again.
C23_Witness ==
    /\ ui.app = "cli" /\ ui.page = "menu" /\ ui.choice = <<"6">> /\ ~ui.failed
    /\ db = DB /\ ret.fn = "scrape_and_download" /\ Len(ret.result) = 1 /\ Len(ledger) = 1

====
